---- MODULE Spec2Model ----
(***************************************************************************)
(* fostij/city_bike, src/algorithms.py: merge_sort, _merge, binary_search  *)
(* and benchmark_sort, modelled as a small-step machine over a heap of     *)
(* Python list objects and a call stack.  A list is a heap cell named by   *)
(* a reference, so that aliasing (two names for one list) and in-place     *)
(* change are visible.  A key function that raises is modelled by an       *)
(* exception that unwinds the stack, no function having a try statement.   *)
(***************************************************************************)
EXTENDS Integers, Sequences, FiniteSets, TLC

(***************************************************************************)
(* Bounds of the model.                                                    *)
(***************************************************************************)
MaxLen == 3
MaxTarget == 4
MaxDuration == 1

(***************************************************************************)
(* Inputs: the elements, the key functions and the search targets.         *)
(***************************************************************************)
\* The empty tuple is the malformed element: lambda e: e[0] raises on it.
Malformed == <<>>

Elements == {<<1, "a">>, <<1, "z">>, <<2, "b">>, <<3, "c">>, Malformed}

\* key: Callable.  first is lambda e: e[0], neg_first is lambda e: -e[0],
\* len is the builtin len (total: it does not raise on the empty tuple).
KeyFns == {"first", "neg_first", "len"}

\* Whether key(e) raises.
Fails(k, e) == k \in {"first", "neg_first"} /\ Len(e) = 0

\* key(e) for an element on which key does not raise.
KeyVal(k, e) ==
    CASE k = "first" -> e[1]
      [] k = "neg_first" -> 0 - e[1]
      [] k = "len" -> Len(e)

\* The exception key raises on the malformed element (tuple index out of range).
KeyError(k) == "IndexError"

\* The bounded range, and the absent target 9 of the specification's scenario.
Targets == ((0 - MaxTarget)..MaxTarget) \cup {9}

Durations == 0..MaxDuration

RECURSIVE SeqsUpTo(_)
SeqsUpTo(n) ==
    IF n = 0 THEN {<<>>}
    ELSE LET shorter == SeqsUpTo(n - 1)
         IN  shorter \cup {Append(s, e) : s \in {t \in shorter : Len(t) = n - 1}, e \in Elements}

\* The concrete scenario of the specification.
Scenario == <<<<3, "c">>, <<1, "a">>, <<2, "b">>, <<1, "z">>>>

\* The scenario once sorted, as binary_search is given it.
SortedScenario == <<<<1, "a">>, <<1, "z">>, <<2, "b">>, <<3, "c">>>>

Inputs == SeqsUpTo(MaxLen) \cup {Scenario, SortedScenario}

Ops == {"sort", "search", "benchmark"}

(***************************************************************************)
(* The state.                                                              *)
(***************************************************************************)
VARIABLES
    heap,      \* reference -> contents of the list object
    stack,     \* the call stack, the running frame last
    op,        \* which function the caller calls
    key,       \* the key argument, passed unchanged to every call
    target,    \* binary_search's target argument
    phase,     \* "ready" | "running" | "returned" | "raised"
    result,    \* what the call returned to the caller
    once,      \* the caller's name for the first result when it sorts again
    exc,       \* the exception in flight (or delivered to the caller)
    orig,      \* history: the contents of the caller's list before the call
    calls,     \* history: the sort calls benchmark_sort made, with the argument's contents
    probes     \* history: the midpoints binary_search probed

vars == <<heap, stack, op, key, target, phase, result, once, exc, orig, calls, probes>>

None == 0
NoExc == "none"
\* The caller's list.
InputRef == 1

(***************************************************************************)
(* Heap: allocation, and CPython's reference counting, which frees a list  *)
(* as soon as nothing names it.                                            *)
(***************************************************************************)
Alloc(h) == CHOOSE r \in 1..(Cardinality(DOMAIN h) + 1) :
                /\ r \notin DOMAIN h
                /\ \A q \in 1..(r - 1) : q \in DOMAIN h

NewList(h, s) == h @@ (Alloc(h) :> s)

FrameRefs(f) ==
    CASE f.fn = "merge_sort" -> {f.data, f.left_half, f.right_half, f.ret} \ {None}
      [] f.fn = "_merge" -> {f.left, f.right, f.result} \ {None}
      [] f.fn = "binary_search" -> {f.data}
      [] f.fn = "benchmark_sort" -> {f.data}

Live(stk, roots) == roots \cup UNION {FrameRefs(stk[n]) : n \in 1..Len(stk)}

Collect(h, stk, roots) == [r \in DOMAIN h \cap Live(stk, roots) |-> h[r]]

\* The lists the caller names.
CallerRoots == {InputRef, once} \ {None}

(***************************************************************************)
(* Frames.                                                                 *)
(***************************************************************************)
MergeSortFrame(d) ==
    [fn |-> "merge_sort", pc |-> "start", data |-> d, mid |-> 0,
     left_half |-> None, right_half |-> None, ret |-> None]

MergeFrame(l, r) ==
    [fn |-> "_merge", pc |-> "start", left |-> l, right |-> r,
     result |-> None, i |-> 0, j |-> 0]

BinarySearchFrame(d) ==
    [fn |-> "binary_search", pc |-> "start", data |-> d, left |-> 0, right |-> 0]

BenchmarkFrame(d) ==
    [fn |-> "benchmark_sort", pc |-> "custom", data |-> d, n |-> 0, custom_time |-> 0]

Top == stack[Len(stack)]

Running(fn, pc) ==
    /\ phase = "running"
    /\ exc = NoExc
    /\ stack # <<>>
    /\ Top.fn = fn
    /\ Top.pc = pc

SetTop(f) == [stack EXCEPT ![Len(stack)] = f]

Pop(stk) == SubSeq(stk, 1, Len(stk) - 1)

(***************************************************************************)
(* Return: the frame is popped and the value handed to the calling frame,  *)
(* or to the caller when the frame was the outermost.                      *)
(***************************************************************************)
\* The calling frame f once the call it waits on has returned v.
Resume(f, v) ==
    CASE f.fn = "merge_sort" /\ f.pc = "left" ->
             [f EXCEPT !.left_half = v, !.pc = "got_left"]
      [] f.fn = "merge_sort" /\ f.pc = "right" ->
             [f EXCEPT !.right_half = v, !.pc = "got_right"]
      [] f.fn = "merge_sort" /\ f.pc = "merge" ->
             [f EXCEPT !.ret = v, !.pc = "return"]
      [] f.fn = "benchmark_sort" /\ f.pc = "custom" ->
             [f EXCEPT !.n = f.n + 1]

Return(h, v) ==
    LET rest == Pop(stack)
    IN  IF rest = <<>>
        THEN /\ stack' = <<>>
             /\ result' = v
             /\ phase' = "returned"
             /\ heap' = Collect(h, <<>>, CallerRoots \cup (IF op = "sort" THEN {v} ELSE {}))
        ELSE LET stk == [rest EXCEPT ![Len(rest)] = Resume(rest[Len(rest)], v)]
             IN  /\ stack' = stk
                 /\ heap' = Collect(h, stk, CallerRoots)
                 /\ UNCHANGED <<result, phase>>

(***************************************************************************)
(* The caller.                                                             *)
(***************************************************************************)
Init ==
    /\ orig \in Inputs
    /\ heap = (InputRef :> orig)
    /\ stack = <<>>
    /\ op \in Ops
    /\ key \in KeyFns
    /\ target \in (IF op = "search" THEN Targets ELSE {0})
    /\ phase = "ready"
    /\ result = None
    /\ once = None
    /\ exc = NoExc
    /\ calls = <<>>
    /\ probes = <<>>

CallMergeSort ==
    /\ phase = "ready"
    /\ op = "sort"
    /\ stack' = <<MergeSortFrame(InputRef)>>
    /\ phase' = "running"
    /\ UNCHANGED <<heap, op, key, target, result, once, exc, orig, calls, probes>>

\* The caller sorts the list it got back.
CallMergeSortAgain ==
    /\ phase = "returned"
    /\ op = "sort"
    /\ once = None
    /\ once' = result
    /\ result' = None
    /\ stack' = <<MergeSortFrame(result)>>
    /\ phase' = "running"
    /\ UNCHANGED <<heap, op, key, target, exc, orig, calls, probes>>

(***************************************************************************)
(* merge_sort                                                              *)
(***************************************************************************)
\* Mutant: the split leaves one element to the right half.
MidLast(n) == n - 1

Mid(n) == n \div 2

\* data[:mid] and data[mid:], each a new list.
SliceLeft(s, mid) == SubSeq(s, 1, mid)
SliceRight(s, mid) == SubSeq(s, mid + 1, Len(s))

\* if len(data) <= 1: return data
MergeSortBase ==
    /\ Running("merge_sort", "start")
    /\ Len(heap[Top.data]) <= 1
    /\ Return(heap, Top.data)
    /\ UNCHANGED <<op, key, target, once, exc, orig, calls, probes>>

\* mid = len(data) // 2; left_half = merge_sort(data[:mid], key): the call
MergeSortLeft ==
    /\ Running("merge_sort", "start")
    /\ Len(heap[Top.data]) > 1
    /\ LET m == Mid(Len(heap[Top.data]))
           h == NewList(heap, SliceLeft(heap[Top.data], m))
       IN  /\ heap' = h
           /\ stack' = Append(SetTop([Top EXCEPT !.mid = m, !.pc = "left"]),
                              MergeSortFrame(Alloc(heap)))
    /\ UNCHANGED <<op, key, target, phase, result, once, exc, orig, calls, probes>>

\* right_half = merge_sort(data[mid:], key): the call
MergeSortRight ==
    /\ Running("merge_sort", "got_left")
    /\ heap' = NewList(heap, SliceRight(heap[Top.data], Top.mid))
    /\ stack' = Append(SetTop([Top EXCEPT !.pc = "right"]), MergeSortFrame(Alloc(heap)))
    /\ UNCHANGED <<op, key, target, phase, result, once, exc, orig, calls, probes>>

\* return _merge(left_half, right_half, key): the call
MergeSortMerge ==
    /\ Running("merge_sort", "got_right")
    /\ stack' = Append(SetTop([Top EXCEPT !.pc = "merge"]),
                       MergeFrame(Top.left_half, Top.right_half))
    /\ UNCHANGED <<heap, op, key, target, phase, result, once, exc, orig, calls, probes>>

\* Mutant: data[:] = _merge(...), the in-place variant of the sort.
MergeSortReturnHeapInPlace(h, data, merged) == [h EXCEPT ![data] = h[merged]]

\* The heap as return _merge(...) leaves it: data is not written.
MergeSortReturnHeap(h, data, merged) == h

\* return _merge(left_half, right_half, key): the return
MergeSortReturn ==
    /\ Running("merge_sort", "return")
    /\ Return(MergeSortReturnHeap(heap, Top.data, Top.ret), Top.ret)
    /\ UNCHANGED <<op, key, target, once, exc, orig, calls, probes>>

(***************************************************************************)
(* _merge                                                                  *)
(***************************************************************************)
\* while i < len(left) and j < len(right)
MergeLoopCond(f) == f.i < Len(heap[f.left]) /\ f.j < Len(heap[f.right])

\* left[i] and right[j] (Python counts from 0)
LeftAt(f) == heap[f.left][f.i + 1]
RightAt(f) == heap[f.right][f.j + 1]

\* Mutants of the comparison: strict (ties take the right element), and reversed.
TakeLeftStrict(kl, kr) == kl < kr
TakeLeftReversed(kl, kr) == kl >= kr

\* Mutant: the right tail is not appended.
ExtendedLeftOnly(res, l, i, r, j) == res \o SubSeq(l, i + 1, Len(l))

\* Mutant: the engine wraps the key function's failure in an error of its own.
PropagatedWrapped(e) == "SortError"

\* if key(left[i]) <= key(right[j])
TakeLeft(kl, kr) == kl <= kr

\* The exception as it leaves the engine: no function catches or wraps it.
Propagated(e) == e

\* result = []; i = j = 0
MergeStart ==
    /\ Running("_merge", "start")
    /\ heap' = NewList(heap, <<>>)
    /\ stack' = SetTop([Top EXCEPT !.result = Alloc(heap), !.i = 0, !.j = 0, !.pc = "loop"])
    /\ UNCHANGED <<op, key, target, phase, result, once, exc, orig, calls, probes>>

\* key(left[i]) or key(right[j]) raises
MergeKeyRaises ==
    /\ Running("_merge", "loop")
    /\ MergeLoopCond(Top)
    /\ Fails(key, LeftAt(Top)) \/ Fails(key, RightAt(Top))
    /\ exc' = Propagated(KeyError(key))
    /\ UNCHANGED <<heap, stack, op, key, target, phase, result, once, orig, calls, probes>>

\* result.append(left[i]); i += 1
MergeTakeLeft ==
    /\ Running("_merge", "loop")
    /\ MergeLoopCond(Top)
    /\ ~Fails(key, LeftAt(Top)) /\ ~Fails(key, RightAt(Top))
    /\ TakeLeft(KeyVal(key, LeftAt(Top)), KeyVal(key, RightAt(Top)))
    /\ heap' = [heap EXCEPT ![Top.result] = Append(@, LeftAt(Top))]
    /\ stack' = SetTop([Top EXCEPT !.i = Top.i + 1])
    /\ UNCHANGED <<op, key, target, phase, result, once, exc, orig, calls, probes>>

\* result.append(right[j]); j += 1
MergeTakeRight ==
    /\ Running("_merge", "loop")
    /\ MergeLoopCond(Top)
    /\ ~Fails(key, LeftAt(Top)) /\ ~Fails(key, RightAt(Top))
    /\ ~TakeLeft(KeyVal(key, LeftAt(Top)), KeyVal(key, RightAt(Top)))
    /\ heap' = [heap EXCEPT ![Top.result] = Append(@, RightAt(Top))]
    /\ stack' = SetTop([Top EXCEPT !.j = Top.j + 1])
    /\ UNCHANGED <<op, key, target, phase, result, once, exc, orig, calls, probes>>

\* result.extend(left[i:]); result.extend(right[j:])
Extended(res, l, i, r, j) == res \o SubSeq(l, i + 1, Len(l)) \o SubSeq(r, j + 1, Len(r))

\* the loop is left; the two extends; return result
MergeFinish ==
    /\ Running("_merge", "loop")
    /\ ~MergeLoopCond(Top)
    /\ Return([heap EXCEPT ![Top.result] =
                   Extended(@, heap[Top.left], Top.i, heap[Top.right], Top.j)],
              Top.result)
    /\ UNCHANGED <<op, key, target, once, exc, orig, calls, probes>>

(***************************************************************************)
(* binary_search                                                           *)
(***************************************************************************)
\* Mutant: the last position is left out of the search range.
InitRightShort(n) == n - 2

\* Mutant: a miss returns the insertion point, as bisect does.
MissResultInsertionPoint(left, right) == left

\* Mutant: right = len(data), one past the last position.
InitRightLong(n) == n

\* Mutants of the midpoint: rounded up, and the left end (a linear scan).
MidpointUpper(left, right) == left + ((right - left + 1) \div 2)
MidpointLinear(left, right) == left

\* left, right = 0, len(data) - 1
InitLeft == 0
InitRight(n) == n - 1

\* mid = left + (right - left) // 2
Midpoint(left, right) == left + ((right - left) \div 2)

\* mid_value == target, and mid_value < target
IsHit(mid_value, t) == mid_value = t
GoesRight(mid_value, t) == mid_value < t

\* return -1  # Target not found
NotFound == -1

\* what a miss returns
MissResult(left, right) == NotFound

\* data[mid] of the running binary_search frame
Probed(f) == heap[f.data][Midpoint(f.left, f.right) + 1]

SearchStart ==
    /\ Running("binary_search", "start")
    /\ stack' = SetTop([Top EXCEPT !.left = InitLeft,
                                   !.right = InitRight(Len(heap[Top.data])),
                                   !.pc = "loop"])
    /\ UNCHANGED <<heap, op, key, target, phase, result, once, exc, orig, calls, probes>>

\* mid_value = key(data[mid]) raises
SearchKeyRaises ==
    /\ Running("binary_search", "loop")
    /\ Top.left <= Top.right
    /\ Fails(key, Probed(Top))
    /\ exc' = Propagated(KeyError(key))
    /\ probes' = Append(probes, Midpoint(Top.left, Top.right))
    /\ UNCHANGED <<heap, stack, op, key, target, phase, result, once, orig, calls>>

\* if mid_value == target: return mid
SearchHit ==
    /\ Running("binary_search", "loop")
    /\ Top.left <= Top.right
    /\ ~Fails(key, Probed(Top))
    /\ IsHit(KeyVal(key, Probed(Top)), target)
    /\ probes' = Append(probes, Midpoint(Top.left, Top.right))
    /\ Return(heap, Midpoint(Top.left, Top.right))
    /\ UNCHANGED <<op, key, target, once, exc, orig, calls>>

\* elif mid_value < target: left = mid + 1
SearchGoRight ==
    /\ Running("binary_search", "loop")
    /\ Top.left <= Top.right
    /\ ~Fails(key, Probed(Top))
    /\ ~IsHit(KeyVal(key, Probed(Top)), target)
    /\ GoesRight(KeyVal(key, Probed(Top)), target)
    /\ probes' = Append(probes, Midpoint(Top.left, Top.right))
    /\ stack' = SetTop([Top EXCEPT !.left = Midpoint(Top.left, Top.right) + 1])
    /\ UNCHANGED <<heap, op, key, target, phase, result, once, exc, orig, calls>>

\* else: right = mid - 1
SearchGoLeft ==
    /\ Running("binary_search", "loop")
    /\ Top.left <= Top.right
    /\ ~Fails(key, Probed(Top))
    /\ ~IsHit(KeyVal(key, Probed(Top)), target)
    /\ ~GoesRight(KeyVal(key, Probed(Top)), target)
    /\ probes' = Append(probes, Midpoint(Top.left, Top.right))
    /\ stack' = SetTop([Top EXCEPT !.right = Midpoint(Top.left, Top.right) - 1])
    /\ UNCHANGED <<heap, op, key, target, phase, result, once, exc, orig, calls>>

\* the loop is left: return -1
SearchMiss ==
    /\ Running("binary_search", "loop")
    /\ Top.left > Top.right
    /\ Return(heap, MissResult(Top.left, Top.right))
    /\ UNCHANGED <<op, key, target, once, exc, orig, calls, probes>>

CallBinarySearch ==
    /\ phase = "ready"
    /\ op = "search"
    /\ stack' = <<BinarySearchFrame(InputRef)>>
    /\ phase' = "running"
    /\ UNCHANGED <<heap, op, key, target, result, once, exc, orig, calls, probes>>

(***************************************************************************)
(* benchmark_sort                                                          *)
(***************************************************************************)
\* timeit.timeit(..., number=10)
Number == 10

\* The builtin sorted(data, key=key): a new list, stably sorted; it calls key
\* on every element before it compares any.
RECURSIVE Insert(_, _, _)
Insert(s, e, k) ==
    IF s = <<>> THEN <<e>>
    ELSE IF KeyVal(k, e) < KeyVal(k, Head(s)) THEN <<e>> \o s
    ELSE <<Head(s)>> \o Insert(Tail(s), e, k)

RECURSIVE BuiltinSorted(_, _)
BuiltinSorted(s, k) ==
    IF s = <<>> THEN <<>>
    ELSE Insert(BuiltinSorted(SubSeq(s, 1, Len(s) - 1), k), s[Len(s)], k)

BuiltinRaises(s, k) == \E n \in 1..Len(s) : Fails(k, s[n])

\* Mutant: data.sort(key=key), which sorts the caller's list in place.
BuiltinRunHeapInPlace(h, data, k) == [h EXCEPT ![data] = BuiltinSorted(h[data], k)]

\* The heap after one run of sorted(data, key=key): a new list, data not written.
BuiltinRunHeap(h, data, k) == NewList(h, BuiltinSorted(h[data], k))

CallBenchmarkSort ==
    /\ phase = "ready"
    /\ op = "benchmark"
    /\ stack' = <<BenchmarkFrame(InputRef)>>
    /\ phase' = "running"
    /\ UNCHANGED <<heap, op, key, target, result, once, exc, orig, calls, probes>>

\* one of timeit's runs of lambda: merge_sort(data, key): the call
BenchCustomRun ==
    /\ Running("benchmark_sort", "custom")
    /\ Top.n < Number
    /\ stack' = Append(stack, MergeSortFrame(Top.data))
    /\ calls' = Append(calls, <<"merge_sort", heap[Top.data]>>)
    /\ UNCHANGED <<heap, op, key, target, phase, result, once, exc, orig, probes>>

\* custom_time = timeit.timeit(...): the first timing is taken
BenchCustomTimed ==
    /\ Running("benchmark_sort", "custom")
    /\ Top.n = Number
    /\ \E t \in Durations :
           stack' = SetTop([Top EXCEPT !.custom_time = t, !.n = 0, !.pc = "builtin"])
    /\ UNCHANGED <<heap, op, key, target, phase, result, once, exc, orig, calls, probes>>

\* one of timeit's runs of lambda: sorted(data, key=key); its result is dropped
BenchBuiltinRun ==
    /\ Running("benchmark_sort", "builtin")
    /\ Top.n < Number
    /\ ~BuiltinRaises(heap[Top.data], key)
    /\ heap' = Collect(BuiltinRunHeap(heap, Top.data, key), stack, CallerRoots)
    /\ stack' = SetTop([Top EXCEPT !.n = Top.n + 1])
    /\ calls' = Append(calls, <<"sorted", heap[Top.data]>>)
    /\ UNCHANGED <<op, key, target, phase, result, once, exc, orig, probes>>

\* key raises inside sorted
BenchBuiltinRaises ==
    /\ Running("benchmark_sort", "builtin")
    /\ Top.n < Number
    /\ BuiltinRaises(heap[Top.data], key)
    /\ exc' = Propagated(KeyError(key))
    /\ calls' = Append(calls, <<"sorted", heap[Top.data]>>)
    /\ UNCHANGED <<heap, stack, op, key, target, phase, result, once, orig, probes>>

\* builtin_time = timeit.timeit(...); return {'merge_sort': ..., 'builtin_in_sorted': ...}
BenchReturn ==
    /\ Running("benchmark_sort", "builtin")
    /\ Top.n = Number
    /\ \E t \in Durations :
           Return(heap, [merge_sort |-> Top.custom_time, builtin_in_sorted |-> t])
    /\ UNCHANGED <<op, key, target, once, exc, orig, calls, probes>>

(***************************************************************************)
(* An exception in flight leaves the running frame: no function of the     *)
(* module has a try statement.                                             *)
(***************************************************************************)
Propagate ==
    /\ phase = "running"
    /\ exc # NoExc
    /\ stack # <<>>
    /\ stack' = Pop(stack)
    /\ heap' = Collect(heap, Pop(stack), CallerRoots)
    /\ phase' = IF Pop(stack) = <<>> THEN "raised" ELSE phase
    /\ UNCHANGED <<op, key, target, result, once, exc, orig, calls, probes>>

Next ==
    \/ CallMergeSort
    \/ CallMergeSortAgain
    \/ MergeSortBase
    \/ MergeSortLeft
    \/ MergeSortRight
    \/ MergeSortMerge
    \/ MergeSortReturn
    \/ MergeStart
    \/ MergeKeyRaises
    \/ MergeTakeLeft
    \/ MergeTakeRight
    \/ MergeFinish
    \/ CallBinarySearch
    \/ SearchStart
    \/ SearchKeyRaises
    \/ SearchHit
    \/ SearchGoRight
    \/ SearchGoLeft
    \/ SearchMiss
    \/ CallBenchmarkSort
    \/ BenchCustomRun
    \/ BenchCustomTimed
    \/ BenchBuiltinRun
    \/ BenchBuiltinRaises
    \/ BenchReturn
    \/ Propagate

Spec == Init /\ [][Next]_vars

(***************************************************************************)
(* What the claims speak of.                                               *)
(***************************************************************************)
\* A call of merge_sort by the caller has returned; its argument and its result.
SortReturned == op = "sort" /\ phase = "returned"
SortArg == IF once = None THEN orig ELSE heap[once]
SortOut == heap[result]

Count(e, s) == Cardinality({n \in 1..Len(s) : s[n] = e})

\* key raises on no element of s
WellFormed(s, k) == \A n \in 1..Len(s) : ~Fails(k, s[n])

\* s is ascending by key
Ascending(s, k) == \A n \in 1..(Len(s) - 1) : KeyVal(k, s[n]) <= KeyVal(k, s[n + 1])

\* the elements of s whose key is v, in their order in s
WithKey(s, k, v) == SelectSeq(s, LAMBDA e : ~Fails(k, e) /\ KeyVal(k, e) = v)

\* the values key takes on the elements
KeyValues == {KeyVal(k, e) : <<k, e>> \in {x \in KeyFns \X Elements : ~Fails(x[1], x[2])}}

HasKey(s, k, v) == \E n \in 1..Len(s) : KeyVal(k, s[n]) = v

\* C1: when merge_sort returns, its result has the length of its argument and
\* holds every element as often as the argument does; [] gives [].
C1_Permutation ==
    SortReturned =>
        /\ Len(SortOut) = Len(SortArg)
        /\ \A e \in Elements : Count(e, SortOut) = Count(e, SortArg)
        /\ (SortArg = <<>> => SortOut = <<>>)

\* C1: a three-element unsorted input with a duplicate has been sorted.
C1_Witness ==
    /\ SortReturned
    /\ once = None
    /\ key = "first"
    /\ orig = <<<<2, "b">>, <<1, "a">>, <<2, "b">>>>
    /\ SortOut = <<<<1, "a">>, <<2, "b">>, <<2, "b">>>>

\* C2: when merge_sort returns, the keys of its result never decrease from one
\* position to the next.
C2_Ascending ==
    SortReturned => Ascending(SortOut, key)

\* C2: a descending input has been sorted ascending.
C2_Witness ==
    /\ SortReturned
    /\ once = None
    /\ key = "first"
    /\ orig = <<<<3, "c">>, <<2, "b">>, <<1, "a">>>>
    /\ SortOut = <<<<1, "a">>, <<2, "b">>, <<3, "c">>>>

\* s and r hold the elements of each key in the same order
SameOrderPerKey(s, r, k) == \A v \in KeyValues : WithKey(s, k, v) = WithKey(r, k, v)

\* C3: when merge_sort returns, at every level of the recursion, the elements
\* of each key stand in the result in the order they had in the argument; the
\* scenario of the specification sorts to [(1,'a'),(1,'z'),(2,'b'),(3,'c')].
C3_Stable ==
    /\ \A n \in 1..Len(stack) :
           (stack[n].fn = "merge_sort" /\ stack[n].pc = "return") =>
               SameOrderPerKey(heap[stack[n].ret], heap[stack[n].data], key)
    /\ SortReturned =>
           /\ SameOrderPerKey(SortOut, SortArg, key)
           /\ (orig = Scenario /\ key = "first") =>
                  SortOut = <<<<1, "a">>, <<1, "z">>, <<2, "b">>, <<3, "c">>>>

\* C3: the scenario has been sorted by first component.
C3_Witness ==
    /\ SortReturned
    /\ once = None
    /\ key = "first"
    /\ orig = Scenario
    /\ WithKey(SortOut, key, 1) = <<<<1, "a">>, <<1, "z">>>>

\* binary_search has returned from a sequence sorted ascending by key.
SearchReturnedSorted ==
    /\ op = "search"
    /\ phase = "returned"
    /\ WellFormed(orig, key)
    /\ Ascending(orig, key)

\* C4: on a sequence sorted by key that holds the target key, binary_search
\* returns an index of the sequence whose element has the target key, never -1.
C4_SearchHit ==
    (SearchReturnedSorted /\ HasKey(orig, key, target)) =>
        /\ result \in 0..(Len(orig) - 1)
        /\ KeyVal(key, orig[result + 1]) = target
        /\ result # -1

\* C4: the target is the key of the last element only, and was found there.
C4_Witness ==
    /\ SearchReturnedSorted
    /\ key = "first"
    /\ orig = <<<<1, "a">>, <<1, "z">>, <<3, "c">>>>
    /\ target = 3
    /\ result = 2

\* C5: on a sequence sorted by key (the empty one too) that does not hold the
\* target key, binary_search raises nothing and returns -1, which is no
\* position of the sequence.
C5_SearchMiss ==
    (op = "search" /\ WellFormed(orig, key) /\ Ascending(orig, key)
        /\ ~HasKey(orig, key, target)) =>
        /\ exc = NoExc
        /\ phase # "raised"
        /\ phase = "returned" => (result = -1 /\ result \notin 0..(Len(orig) - 1))

\* C5: a target between the keys of a sorted sequence was searched and missed.
C5_Witness ==
    /\ SearchReturnedSorted
    /\ key = "first"
    /\ orig = <<<<1, "a">>, <<1, "z">>, <<3, "c">>>>
    /\ target = 2
    /\ result = -1
    /\ Len(probes) = 2

\* C6: at every point of a call of merge_sort, binary_search or benchmark_sort
\* the caller's list holds the elements it held before the call, in that order.
C6_InputUnchanged ==
    /\ InputRef \in DOMAIN heap
    /\ heap[InputRef] = orig

\* C6: an unsorted input has been sorted; the result differs from the input.
C6_Witness ==
    /\ SortReturned
    /\ once = None
    /\ key = "first"
    /\ orig = <<<<3, "c">>, <<1, "a">>, <<2, "b">>>>
    /\ SortOut # orig
    /\ heap[InputRef] = orig

\* C7: the list merge_sort returns is another list object than the one the
\* caller passed in, for inputs of every length.
C7_ResultIsNewList ==
    (SortReturned /\ once = None) => result # InputRef

\* C8: sorting the result of merge_sort again gives a list equal to it,
\* element for element.
C8_Idempotent ==
    (SortReturned /\ once # None) => heap[result] = heap[once]

\* C8: a list with equal keys was sorted, and its result sorted again.
C8_Witness ==
    /\ SortReturned
    /\ once # None
    /\ key = "first"
    /\ orig = <<<<1, "z">>, <<3, "c">>, <<1, "a">>>>
    /\ heap[result] = <<<<1, "z">>, <<1, "a">>, <<3, "c">>>>
    /\ result # once

\* key raises on some element of s
HasMalformed(s, k) == \E n \in 1..Len(s) : Fails(k, s[n])

\* binary_search has probed a position whose element key raises on
ProbedMalformed == \E n \in 1..Len(probes) : Fails(key, orig[probes[n] + 1])

\* C9 as stated: whenever the sequence holds an element the key function fails
\* on, whatever its length and wherever the element sits, merge_sort and
\* binary_search do not return.
C9_Original ==
    (op \in {"sort", "search"} /\ HasMalformed(orig, key)) => phase # "returned"

\* C9 amended: merge_sort calls key on every element of a sequence of two or
\* more elements and on none of a shorter one, binary_search on the midpoints
\* it probes; the call raises exactly when key fails on an element it is
\* called on, and then the caller gets key's own exception, no result, and its
\* list unchanged.
C9_KeyFailurePropagates ==
    /\ (op = "sort" /\ phase \in {"returned", "raised"}) =>
           (phase = "raised" <=> (HasMalformed(orig, key) /\ Len(orig) >= 2))
    /\ (op = "search" /\ phase \in {"returned", "raised"}) =>
           (phase = "raised" <=> ProbedMalformed)
    /\ phase = "raised" =>
           /\ exc = KeyError(key)
           /\ result = None
           /\ heap = (InputRef :> orig)
    /\ phase = "returned" => exc = NoExc
    /\ (exc # NoExc /\ stack = <<>>) => phase = "raised"

\* C9: merge_sort has raised on a malformed last element of three.
C9_Witness ==
    /\ op = "sort"
    /\ phase = "raised"
    /\ key = "first"
    /\ orig = <<<<2, "b">>, <<1, "a">>, Malformed>>

\* n times the call <<fn, arg>>
RECURSIVE Repeated(_, _)
Repeated(c, n) == IF n = 0 THEN <<>> ELSE <<c>> \o Repeated(c, n - 1)

\* C10: every run benchmark_sort makes receives the caller's list as the caller
\* passed it; when it returns it has run merge_sort 10 times and then sorted
\* 10 times, returns the two durations 'merge_sort' and 'builtin_in_sorted',
\* and the caller's list is unchanged.
C10_Benchmark ==
    /\ \A n \in 1..Len(calls) : calls[n][2] = orig
    /\ (op = "benchmark" /\ phase = "returned") =>
           /\ calls = Repeated(<<"merge_sort", orig>>, 10) \o Repeated(<<"sorted", orig>>, 10)
           /\ DOMAIN result = {"merge_sort", "builtin_in_sorted"}
           /\ result.merge_sort \in Durations
           /\ result.builtin_in_sorted \in Durations
           /\ heap[InputRef] = orig

\* C10: benchmark_sort has returned for an unsorted input.
C10_Witness ==
    /\ op = "benchmark"
    /\ phase = "returned"
    /\ key = "first"
    /\ orig = <<<<3, "c">>, <<1, "a">>, <<2, "b">>>>
    /\ Len(calls) = 20

\* The index the bisection of the claim lands on: probes at
\* left + (right - left) // 2 from left = 0, right = len - 1, the first probe
\* whose key is the target, or -1.
RECURSIVE Bisect(_, _, _, _, _)
Bisect(d, t, k, left, right) ==
    IF left > right THEN -1
    ELSE LET mid == left + ((right - left) \div 2)
         IN  IF KeyVal(k, d[mid + 1]) = t THEN mid
             ELSE IF KeyVal(k, d[mid + 1]) < t THEN Bisect(d, t, k, mid + 1, right)
             ELSE Bisect(d, t, k, left, mid - 1)

\* the positions of s whose element has key v
Occurrences(s, k, v) == {n \in 0..(Len(s) - 1) : KeyVal(k, s[n + 1]) = v}

\* C11: on a sorted sequence binary_search returns the first probed midpoint
\* whose key is the target, the probes being left + (right - left) // 2 from
\* left = 0, right = len - 1: an occurrence of the target key, whichever the
\* bisection meets first.  On the sorted scenario target 2 gives 2, target 9
\* gives not-found.
C11_FirstProbedOccurrence ==
    SearchReturnedSorted =>
        /\ result = Bisect(orig, target, key, 0, Len(orig) - 1)
        /\ result # -1 =>
               /\ result \in Occurrences(orig, key, target)
               /\ result = probes[Len(probes)]
               /\ \A n \in 1..(Len(probes) - 1) : probes[n] \notin Occurrences(orig, key, target)
        /\ (orig = SortedScenario /\ key = "first" /\ target = 2) => result = 2
        /\ (orig = SortedScenario /\ key = "first" /\ target = 9) => result = -1

\* C11: of three elements with the target key the middle one is returned,
\* neither the first nor the last occurrence.
C11_Witness ==
    /\ SearchReturnedSorted
    /\ key = "first"
    /\ target = 1
    /\ orig = <<<<1, "a">>, <<1, "z">>, <<1, "a">>>>
    /\ Occurrences(orig, key, target) = {0, 1, 2}
    /\ result = 1

RECURSIVE FloorLog2(_)
FloorLog2(n) == IF n <= 1 THEN 0 ELSE 1 + FloorLog2(n \div 2)

RECURSIVE CeilLog2(_)
CeilLog2(n) == IF n <= 1 THEN 0 ELSE 1 + CeilLog2((n + 1) \div 2)

\* binary_search is in its loop, no exception in flight
InSearchLoop ==
    /\ stack # <<>>
    /\ Top.fn = "binary_search"
    /\ Top.pc = "loop"
    /\ exc = NoExc

\* right - left + 1 of the running binary_search frame
Width == Top.right - Top.left + 1

\* the most iterations the claim allows on a sequence of length n
MaxProbes(n) == IF n = 0 THEN 0 ELSE FloorLog2(n) + 1

\* C12: every iteration of binary_search's loop that does not leave the loop
\* at most halves (rounding down) the width right - left + 1, and the loop
\* body runs at most floor(log2(n)) + 1 times on a sequence of length n >= 1
\* and never on the empty one, for every target and every order of the input.
C12_LogarithmicSteps ==
    [][op = "search" =>
          /\ (InSearchLoop /\ InSearchLoop' /\ probes' # probes) =>
                 /\ Len(probes') = Len(probes) + 1
                 /\ Width' <= Width \div 2
          /\ Len(probes') <= MaxProbes(Len(orig))]_vars

\* C12: a miss on three elements after floor(log2(3)) + 1 = 2 iterations.
C12_Witness ==
    /\ op = "search"
    /\ phase = "returned"
    /\ Len(orig) = 3
    /\ Len(probes) = 2
    /\ result = -1

\* the positions of the stack that hold a merge_sort frame
MergeSortFrames == {n \in 1..Len(stack) : stack[n].fn = "merge_sort"}

\* the length of the list the outermost merge_sort call was given
OuterLen == Len(heap[stack[CHOOSE n \in MergeSortFrames : \A m \in MergeSortFrames : n <= m].data])

\* a step of merge_sort or _merge, or of an exception leaving a frame
SortStep ==
    \/ MergeSortBase
    \/ MergeSortLeft
    \/ MergeSortRight
    \/ MergeSortMerge
    \/ MergeSortReturn
    \/ MergeStart
    \/ MergeKeyRaises
    \/ MergeTakeLeft
    \/ MergeTakeRight
    \/ MergeFinish
    \/ Propagate

\* C13: a merge_sort call on n >= 2 elements hands its halves floor(n/2) and
\* ceil(n/2) elements, both non-empty and shorter than n; no more than
\* ceil(log2(n)) calls are nested in the outermost one, whatever the order of
\* the input; a _merge loop has made i + j steps, never more than
\* len(left) + len(right); and a call whose running frame is merge_sort's
\* or _merge's always has a next step.
C13_SortTerminates ==
    /\ \A n \in MergeSortFrames :
           (n < Len(stack) /\ stack[n + 1].fn = "merge_sort") =>
               LET whole == Len(heap[stack[n].data])
                   half == Len(heap[stack[n + 1].data])
               IN  /\ whole >= 2
                   /\ stack[n].pc \in {"left", "right"}
                   /\ stack[n].pc = "left" => half = whole \div 2
                   /\ stack[n].pc = "right" => half = whole - (whole \div 2)
                   /\ 1 <= half /\ half < whole
    /\ MergeSortFrames # {} =>
           Cardinality(MergeSortFrames) - 1 <= CeilLog2(OuterLen)
    /\ \A n \in 1..Len(stack) :
           (stack[n].fn = "_merge" /\ stack[n].pc = "loop") =>
               /\ stack[n].i <= Len(heap[stack[n].left])
               /\ stack[n].j <= Len(heap[stack[n].right])
               /\ Len(heap[stack[n].result]) = stack[n].i + stack[n].j
    /\ (phase = "running" /\ Top.fn \in {"merge_sort", "_merge"}) => ENABLED SortStep

\* C13: sorting a descending list of three, two calls are nested in the
\* outermost one: ceil(log2(3)) = 2.
C13_Witness ==
    /\ op = "sort"
    /\ phase = "running"
    /\ key = "first"
    /\ orig = <<<<3, "c">>, <<2, "b">>, <<1, "a">>>>
    /\ Cardinality(MergeSortFrames) = 3

\* a step of binary_search, or of an exception leaving its frame
SearchStep ==
    \/ SearchStart
    \/ SearchKeyRaises
    \/ SearchHit
    \/ SearchGoRight
    \/ SearchGoLeft
    \/ SearchMiss
    \/ Propagate

\* C14: for a sequence in any order and every target, binary_search keeps
\* 0 <= left and right <= len - 1, probes only mid with left <= mid <= right,
\* always has a next step while it runs, and returns either -1 or a position
\* of the sequence whose key is the target: on unsorted input it may miss a
\* key that is present, and never returns a wrong index.
C14_SearchSafe ==
    op = "search" =>
        /\ \A n \in 1..Len(probes) : probes[n] \in 0..(Len(orig) - 1)
        /\ (stack # <<>> /\ Top.pc = "loop") =>
               /\ 0 <= Top.left
               /\ Top.right <= Len(orig) - 1
               /\ Top.left <= Top.right =>
                      /\ Top.left <= Midpoint(Top.left, Top.right)
                      /\ Midpoint(Top.left, Top.right) <= Top.right
        /\ phase = "running" => ENABLED SearchStep
        /\ phase = "returned" =>
               \/ result = -1
               \/ /\ result \in 0..(Len(orig) - 1)
                  /\ ~Fails(key, orig[result + 1])
                  /\ KeyVal(key, orig[result + 1]) = target

\* C14: on an unsorted sequence that holds the target key the search has
\* returned not-found.
C14_Witness ==
    /\ op = "search"
    /\ phase = "returned"
    /\ key = "first"
    /\ orig = <<<<3, "c">>, <<2, "b">>, <<1, "a">>>>
    /\ target = 3
    /\ ~Ascending(orig, key)
    /\ HasKey(orig, key, target)
    /\ result = -1
====
